---- MODULE Spec2Model ----
(***************************************************************************)
(* Model of application.py: the APOD request-resolution layer              *)
(* (_get_json_for_date, _get_json_for_random_dates,                        *)
(* _get_json_for_date_range over RESULTS_DICT) and the translation         *)
(* fallback chain (_translate_to_zh over TRANSLATE_CACHE).                 *)
(*                                                                         *)
(* Dates are proleptic Gregorian ordinals (date.toordinal()).  The clock   *)
(* is fixed for a behaviour: the service runs Horizon days after the first *)
(* APOD date, so that the whole range [begin, today] can be enumerated.    *)
(***************************************************************************)
EXTENDS Integers, Sequences, FiniteSets, TLC

\* ------------------------------------------------------------------ bounds
Horizon == 1
MaxCalls == 2
\* number of requests served at the same time
NProcs == 2

\* --------------------------------------------------------------- constants
\* datetime(1995, 6, 16).toordinal(), the first APOD image date
BeginOrdinal == 728460
MaxCount == 100
SERVICE_VERSION == "v1"

VARIABLES today, utcToday, RESULTS_DICT, writer, last, prev, ncalls,
          TRANSLATE_ENABLED, TRANSLATE_CACHE, provided, tlast, tprev, tcalls,
          hlog, request, pc, frame, writes

vars == <<today, utcToday, RESULTS_DICT, writer, last, prev, ncalls,
          TRANSLATE_ENABLED, TRANSLATE_CACHE, provided, tlast, tprev, tcalls,
          hlog, request, pc, frame, writes>>

resolveVars == <<today, utcToday, RESULTS_DICT, writer, last, prev, ncalls>>
translateVars == <<TRANSLATE_ENABLED, TRANSLATE_CACHE, provided, tlast, tprev, tcalls>>
\* the error handlers' invocations so far
handlerVars == <<hlog>>
\* requests in flight in _get_json_for_date: the query they share, where each
\* one stands, its locals, and the assignments to RESULTS_DICT in their order
threadVars == <<request, pc, frame, writes>>

\* ------------------------------------------------------------ calendar
\* Lengths of the months of 1995 (not a leap year).
MonthLen == <<31, 28, 31, 30, 31, 30, 31, 31, 30, 31, 30, 31>>

RECURSIVE MonthOf(_, _)
\* month (1..12) holding the day-of-year doy, scanning from month m
MonthOf(doy, m) ==
    IF doy <= MonthLen[m] THEN m ELSE MonthOf(doy - MonthLen[m], m + 1)

RECURSIVE DayOf(_, _)
DayOf(doy, m) ==
    IF doy <= MonthLen[m] THEN doy ELSE DayOf(doy - MonthLen[m], m + 1)

\* date.fromordinal for the days of 1995; 16 June is day 167 of the year
FromOrdinal(o) ==
    LET doy == o - BeginOrdinal + 167 IN
    [year |-> 1995, month |-> MonthOf(doy, 1), day |-> DayOf(doy, 1)]

\* ------------------------------------------------------------ inputs
Absent == 0
\* a request flag as apod() hands it on: the default, the bool False, or the
\* string of the query, which _validate_bools accepts in any case of
\* "true" / "false"; repr is what str() makes of the value
PyFalse == [type |-> "bool", repr |-> "False"]
FlagVals ==
    {PyFalse, [type |-> "str", repr |-> "False"], [type |-> "str", repr |-> "true"]}
\* the (concept_tags, thumbs) pairs requests are made with: at most one of
\* the two arguments is given
FlagPairs ==
    {[cf |-> cf, th |-> PyFalse] : cf \in FlagVals}
    \cup {[cf |-> PyFalse, th |-> [type |-> "str", repr |-> "true"]]}
\* the flag of no call
NoFlag == [type |-> "none", repr |-> ""]
\* str(use_concept_tags), str(thumbs)
Str(flag) == flag.repr
Payloads == {1, 2}
\* the content batch lookups see
BatchPayload == CHOOSE p \in Payloads : \A q \in Payloads : p <= q
\* dates a request may name: one day either side of [begin, today]
InputDates == (BeginOrdinal - 1) .. (BeginOrdinal + Horizon + 1)
Counts == {0, 1, 2, MaxCount, MaxCount + 1}

NoRec == [date |-> 0, payload |-> 0, cf |-> NoFlag, th |-> NoFlag, service_version |-> ""]

\* ------------------------------------------------------------ DateKeyCodec
\* the key expression of _get_json_for_date
Key(o, cf, th) ==
    LET d == FromOrdinal(o) IN
    ToString(d.year) \o "y" \o ToString(d.month) \o "m" \o ToString(d.day)
        \o "d" \o Str(cf) \o Str(th)

\* _validate_date letting the day after today through
ValidDateOffByOne(dt) == ~((dt > today + 1) \/ (dt < BeginOrdinal))

\* _validate_date refusing the two end days
ValidDateExclusive(dt) == ~((dt >= today) \/ (dt <= BeginOrdinal))

\* _validate_date: TRUE when no ValueError is raised
ValidDate(dt) == ~((dt > today) \/ (dt < BeginOrdinal))

ValidCount(count) == ~(count > MaxCount \/ count <= 0)

\* ------------------------------------------------------------ upstream
\* parse_apod: a record, nothing, or an exception.  The record carries the
\* date asked for, except for a lookup flagged use_default_today_date, whose
\* record may be dated a day either side.
RecordDates(dt, use_default_today_date) ==
    IF use_default_today_date
    THEN LET t == IF dt = Absent THEN today ELSE dt IN {t - 1, t, t + 1}
    ELSE {dt}

ParseOutcomes(dt, use_default_today_date, cf, th, p) ==
    {[kind |-> "record",
      rec |-> [date |-> d, payload |-> p, cf |-> cf, th |-> th,
               service_version |-> ""]] : d \in RecordDates(dt, use_default_today_date)}
    \cup {[kind |-> "absent", rec |-> NoRec], [kind |-> "raise", rec |-> NoRec]}

\* a handler that reports an exception of parse_apod as no data
ApodHandlerSwallowing(out) ==
    CASE out.kind = "record" -> [type |-> "dict", rec |-> out.rec]
      [] OTHER -> [type |-> "none", rec |-> NoRec]

\* _apod_handler: what the handler returns for an outcome of parse_apod
\* ("dict" a record, "none" no data, "response" the 500 response)
ApodHandler(out) ==
    CASE out.kind = "record" -> [type |-> "dict", rec |-> out.rec]
      [] out.kind = "absent" -> [type |-> "none", rec |-> NoRec]
      [] OTHER -> [type |-> "response", rec |-> NoRec]

WithVersion(rec) == [rec EXCEPT !.service_version = SERVICE_VERSION]

\* ------------------------------------------------------------ ResultCache
\* a write that is lost
PutNothing(dict, key, data) == dict

\* a write that keeps the entry already there

PutIfAbsent(dict, key, data) ==
    [k \in DOMAIN dict \cup {key} |-> IF k \in DOMAIN dict THEN dict[k] ELSE data]

\* RESULTS_DICT[key] = data
Put(dict, key, data) ==
    [k \in DOMAIN dict \cup {key} |-> IF k = key THEN data ELSE dict[k]]

\* the key of the lookup, kept for the write
DataKeyRequested(data, key, cf, th) == key

\* the key recomputed from the record's own date before the write
DataKey(data, key, cf, th) == Key(data.date, cf, th)

\* summary of a call: its arguments, its outcome (status, result), the
\* parse_apod lookups it made (fetched), what parse_apod answered to each
\* (upstream) and what became of each (handled),
\* the day each returned record was asked for (asked), the number of
\* RESULTS_DICT lookups (reads) and the keys it assigned (wkeys)
NoCall ==
    [op |-> "none", date |-> 0, start |-> 0, end |-> 0, count |-> 0,
     cf |-> NoFlag, th |-> NoFlag, status |-> "none", result |-> <<>>,
     fetched |-> <<>>, upstream |-> <<>>, handled |-> <<>>, asked |-> <<>>,
     reads |-> 0, wkeys |-> {}]

Fetch(dt, use_default_today_date) == [dt |-> dt, default |-> use_default_today_date]

\* what a parse_apod call answered: the kind of outcome and the record's date
Answer(out) == [kind |-> out.kind, date |-> out.rec.date]

\* the status code of the response a call ends with: the record served, the
\* _abort(404) for no data, the _abort(500) _apod_handler handed back, the
\* _abort(400) apod() makes of a ValueError
HttpCode(status) ==
    CASE status = "ok" -> 200
      [] status = "NotFound" -> 404
      [] status = "Fault" -> 500
      [] OTHER -> 400

\* ------------------------------------------------------------ resolveOne
\* _get_json_for_date, given the outcome parse_apod would have
OneCall(input_date, cf, th, out) ==
    LET use_default_today_date == (input_date = Absent)
        base == [NoCall EXCEPT !.op = "one", !.date = input_date,
                               !.cf = cf, !.th = th]
    IN
    IF ~use_default_today_date /\ ~ValidDate(input_date)
    THEN [call |-> [base EXCEPT !.status = "OutOfRangeDate"],
          dict |-> RESULTS_DICT, wrote |-> FALSE]
    ELSE
    LET key == IF use_default_today_date THEN Key(utcToday, cf, th)
                                         ELSE Key(input_date, cf, th)
        hit == key \in DOMAIN RESULTS_DICT
        data == IF hit THEN [type |-> "dict", rec |-> RESULTS_DICT[key]]
                       ELSE ApodHandler(out)
        looked == [base EXCEPT !.reads = 1,
                     !.fetched = IF hit THEN <<>>
                                 ELSE <<Fetch(input_date, use_default_today_date)>>,
                     !.upstream = IF hit THEN <<>> ELSE <<Answer(out)>>,
                     !.handled = IF hit THEN <<>> ELSE <<data.type>>]
    IN
    CASE data.type = "none" ->
           [call |-> [looked EXCEPT !.status = "NotFound"],
            dict |-> RESULTS_DICT, wrote |-> FALSE]
      [] data.type = "response" ->
           [call |-> [looked EXCEPT !.status = "Fault"],
            dict |-> RESULTS_DICT, wrote |-> FALSE]
      [] OTHER ->
           LET rec == WithVersion(data.rec)
               wkey == DataKey(rec, key, cf, th)
           IN [call |-> [looked EXCEPT !.status = "ok", !.result = <<rec>>,
                                       !.asked = <<input_date>>,
                                       !.wkeys = {wkey}],
               dict |-> Put(RESULTS_DICT, wkey, rec), wrote |-> TRUE]

ResolveOne ==
    /\ ncalls < MaxCalls
    /\ \E input_date \in InputDates \cup {Absent}, flags \in FlagPairs,
          p \in Payloads :
        LET cf == flags.cf
            th == flags.th
        IN
        \E out \in ParseOutcomes(input_date, input_date = Absent, cf, th, p) :
          LET r == OneCall(input_date, cf, th, out) IN
          /\ RESULTS_DICT' = r.dict
          /\ writer' = [k \in DOMAIN writer \cup r.call.wkeys |->
                           IF k \in r.call.wkeys THEN <<cf, th>> ELSE writer[k]]
          /\ last' = r.call
    /\ prev' = IF last.op = "one" THEN last ELSE NoCall
    /\ ncalls' = ncalls + 1
    /\ UNCHANGED <<today, utcToday>>
    /\ UNCHANGED <<translateVars, handlerVars, threadVars>>

\* ------------------------------------------------------------ resolveRandom
\* the orders shuffle() can leave list(range(begin_ordinal, today_ordinal + 1)) in
Shuffles(lo, hi) ==
    {q \in [1 .. (hi - lo + 1) -> lo .. hi] :
        \A i, j \in 1 .. (hi - lo + 1) : q[i] = q[j] => i = j}

\* what parse_apod would answer for each day of lo..hi
Upstreams(lo, hi, today_ordinal, cf, th, p) ==
    LET all == UNION {ParseOutcomes(d, d = today_ordinal, cf, th, p) : d \in lo .. hi} IN
    {outs \in [lo .. hi -> all] :
        \A o \in lo .. hi : outs[o] \in ParseOutcomes(o, o = today_ordinal, cf, th, p)}

RECURSIVE RandomLoopOvershooting(_, _, _, _, _, _)
\* a loop that stops one record late
RandomLoopOvershooting(random_date_ordinals, i, outs, count, today_ordinal, acc) ==
    IF i > Len(random_date_ordinals)
    THEN acc
    ELSE
    LET date_ordinal == random_date_ordinals[i]
        data == ApodHandler(outs[date_ordinal])
        f == [acc EXCEPT !.fetched = Append(@, Fetch(date_ordinal, date_ordinal = today_ordinal)),
                         !.upstream = Append(@, Answer(outs[date_ordinal])),
                         !.handled = Append(@, data.type)]
    IN
    IF data.type # "dict"
    THEN RandomLoopOvershooting(random_date_ordinals, i + 1, outs, count, today_ordinal, f)
    ELSE
    LET a == [f EXCEPT !.result = Append(@, WithVersion(data.rec)),
                       !.asked = Append(@, date_ordinal)]
    IN
    IF Len(a.result) > count
    THEN a
    ELSE RandomLoopOvershooting(random_date_ordinals, i + 1, outs, count, today_ordinal, a)

RECURSIVE RandomLoop(_, _, _, _, _, _)
\* the for loop over random_date_ordinals; acc is the call so far
RandomLoop(random_date_ordinals, i, outs, count, today_ordinal, acc) ==
    IF i > Len(random_date_ordinals)
    THEN acc
    ELSE
    LET date_ordinal == random_date_ordinals[i]
        data == ApodHandler(outs[date_ordinal])
        f == [acc EXCEPT !.fetched = Append(@, Fetch(date_ordinal, date_ordinal = today_ordinal)),
                         !.upstream = Append(@, Answer(outs[date_ordinal])),
                         !.handled = Append(@, data.type)]
    IN
    IF data.type # "dict"
    THEN RandomLoop(random_date_ordinals, i + 1, outs, count, today_ordinal, f)
    ELSE
    LET a == [f EXCEPT !.result = Append(@, WithVersion(data.rec)),
                       !.asked = Append(@, date_ordinal)]
    IN
    IF Len(a.result) >= count
    THEN a
    ELSE RandomLoop(random_date_ordinals, i + 1, outs, count, today_ordinal, a)

\* random resolution storing each record it returns
RandomDictStoring(dict, all_data, cf, th) ==
    [k \in DOMAIN dict \cup {Key(all_data[i].date, cf, th) : i \in 1 .. Len(all_data)} |->
        IF \E i \in 1 .. Len(all_data) : k = Key(all_data[i].date, cf, th)
        THEN all_data[CHOOSE i \in 1 .. Len(all_data) : k = Key(all_data[i].date, cf, th)]
        ELSE dict[k]]

\* the dict random resolution leaves behind: it assigns nothing to RESULTS_DICT
RandomDict(dict, all_data, cf, th) == dict

\* _get_json_for_random_dates
RandomCall(count, cf, th, random_date_ordinals, outs) ==
    LET base == [NoCall EXCEPT !.op = "random", !.count = count,
                               !.cf = cf, !.th = th]
    IN
    IF ~ValidCount(count)
    THEN [call |-> [base EXCEPT !.status = "InvalidCount"], dict |-> RESULTS_DICT]
    ELSE
    LET r == RandomLoop(random_date_ordinals, 1, outs, count, today,
                        [base EXCEPT !.status = "ok"])
    IN [call |-> r, dict |-> RandomDict(RESULTS_DICT, r.result, cf, th)]

ResolveRandom ==
    /\ ncalls < MaxCalls
    /\ \E count \in Counts, flags \in FlagPairs :
        LET cf == flags.cf
            th == flags.th
        IN
        \E random_date_ordinals \in
               IF ValidCount(count) THEN Shuffles(BeginOrdinal, today) ELSE {<<>>} :
        \E outs \in
               IF ValidCount(count)
               THEN Upstreams(BeginOrdinal, today, today, cf, th, BatchPayload)
               ELSE {<<>>} :
          LET r == RandomCall(count, cf, th, random_date_ordinals, outs) IN
          /\ RESULTS_DICT' = r.dict
          /\ last' = r.call
    /\ prev' = NoCall
    /\ ncalls' = ncalls + 1
    /\ UNCHANGED <<today, utcToday, writer>>
    /\ UNCHANGED <<translateVars, handlerVars, threadVars>>

\* ------------------------------------------------------------ resolveRange
\* the loop without its date check
KeepAny(data, dt) == TRUE

\* the guard of line 328: data["date"] == dt.isoformat()
KeepRecord(data, dt) == data.date = dt

RECURSIVE RangeLoopAborting(_, _, _, _, _)
\* a loop that gives the batch up at the first day without a record
RangeLoopAborting(start_ordinal, end_ordinal, outs, today_ordinal, acc) ==
    IF ~(start_ordinal <= end_ordinal)
    THEN acc
    ELSE
    LET data == ApodHandler(outs[start_ordinal])
        f == [acc EXCEPT !.fetched = Append(@, Fetch(start_ordinal, start_ordinal = today_ordinal)),
                         !.upstream = Append(@, Answer(outs[start_ordinal]))]
    IN
    IF data.type # "dict"
    THEN [f EXCEPT !.handled = Append(@, data.type)]
    ELSE
    LET rec == WithVersion(data.rec) IN
    IF KeepRecord(rec, start_ordinal)
    THEN RangeLoopAborting(start_ordinal + 1, end_ordinal, outs, today_ordinal,
                           [f EXCEPT !.handled = Append(@, "dict"),
                                     !.result = Append(@, rec),
                                     !.asked = Append(@, start_ordinal)])
    ELSE RangeLoopAborting(start_ordinal + 1, end_ordinal, outs, today_ordinal,
                           [f EXCEPT !.handled = Append(@, "mismatch")])

RECURSIVE RangeLoop(_, _, _, _, _)
\* the while loop over start_ordinal .. end_ordinal; acc is the call so far
RangeLoop(start_ordinal, end_ordinal, outs, today_ordinal, acc) ==
    IF ~(start_ordinal <= end_ordinal)
    THEN acc
    ELSE
    LET data == ApodHandler(outs[start_ordinal])
        f == [acc EXCEPT !.fetched = Append(@, Fetch(start_ordinal, start_ordinal = today_ordinal)),
                         !.upstream = Append(@, Answer(outs[start_ordinal]))]
    IN
    IF data.type # "dict"
    THEN RangeLoop(start_ordinal + 1, end_ordinal, outs, today_ordinal,
                   [f EXCEPT !.handled = Append(@, data.type)])
    ELSE
    LET rec == WithVersion(data.rec) IN
    IF KeepRecord(rec, start_ordinal)
    THEN RangeLoop(start_ordinal + 1, end_ordinal, outs, today_ordinal,
                   [f EXCEPT !.handled = Append(@, "dict"),
                             !.result = Append(@, rec),
                             !.asked = Append(@, start_ordinal)])
    ELSE RangeLoop(start_ordinal + 1, end_ordinal, outs, today_ordinal,
                   [f EXCEPT !.handled = Append(@, "mismatch")])

\* end_date, defaulted to today when the request has none
EndDt(end_date) == IF end_date = Absent THEN today ELSE end_date

\* _get_json_for_date_range, up to the loop: the error raised, if any
RangeError(start_dt, end_dt) ==
    IF ~ValidDate(start_dt) THEN "OutOfRangeDate"
    ELSE IF ~ValidDate(end_dt) THEN "OutOfRangeDate"
    ELSE IF start_dt > end_dt THEN "InvalidRange"
    ELSE "ok"

\* _get_json_for_date_range
RangeCall(start_date, end_date, cf, th, outs) ==
    LET end_dt == EndDt(end_date)
        base == [NoCall EXCEPT !.op = "range", !.start = start_date,
                               !.end = end_date, !.cf = cf, !.th = th]
        err == RangeError(start_date, end_dt)
    IN
    IF err # "ok"
    THEN [base EXCEPT !.status = err]
    ELSE
    RangeLoop(start_date, end_dt, outs, today, [base EXCEPT !.status = "ok"])

\* range resolution storing each record it returns
RangeDictStoring(dict, all_data, cf, th) == RandomDictStoring(dict, all_data, cf, th)

\* the dict range resolution leaves behind: it assigns nothing to RESULTS_DICT
RangeDict(dict, all_data, cf, th) == dict

ResolveRange ==
    /\ ncalls < MaxCalls
    /\ \E start_date \in InputDates, end_date \in InputDates \cup {Absent},
          flags \in FlagPairs :
        LET cf == flags.cf
            th == flags.th
        IN
        \E outs \in
               IF RangeError(start_date, EndDt(end_date)) = "ok"
               THEN Upstreams(start_date, EndDt(end_date), today, cf, th, BatchPayload)
               ELSE {<<>>} :
          LET r == RangeCall(start_date, end_date, cf, th, outs) IN
          /\ RESULTS_DICT' = RangeDict(RESULTS_DICT, r.result, cf, th)
          /\ last' = r
    /\ prev' = NoCall
    /\ ncalls' = ncalls + 1
    /\ UNCHANGED <<today, utcToday, writer>>
    /\ UNCHANGED <<translateVars, handlerVars, threadVars>>

\* ------------------------------------------------------------ translation
Texts == {"", "hello", "sky"}
Translations == {"nihao", "ninhao"}

\* what a translation provider does with one request: the request fails
\* ("network"), the status is an error ("http"), the body is not JSON
\* ("nonjson"), the JSON has another shape than the code indexes ("shape"),
\* the result is missing or empty ("empty"), or a translation comes back ("ok")
ProviderOutcomes ==
    {[kind |-> k, t |-> ""] : k \in {"network", "http", "nonjson", "shape", "empty"}}
    \cup {[kind |-> "ok", t |-> t] : t \in Translations}

\* _translate_with_libretranslate: the value returned or the exception raised
TranslateWithLibretranslate(out) ==
    CASE out.kind \in {"network", "http"} -> [raises |-> "RequestException", value |-> ""]
      [] out.kind = "nonjson" -> [raises |-> "ValueError", value |-> ""]
      [] out.kind = "shape" -> [raises |-> "AttributeError", value |-> ""]
      [] out.kind = "empty" -> [raises |-> "", value |-> ""]
      [] OTHER -> [raises |-> "", value |-> out.t]

\* _translate_with_google: the value returned or the exception raised
TranslateWithGoogle(out) ==
    CASE out.kind \in {"network", "http"} -> [raises |-> "RequestException", value |-> ""]
      [] out.kind = "nonjson" -> [raises |-> "ValueError", value |-> ""]
      [] out.kind = "shape" -> [raises |-> "TypeError", value |-> ""]
      [] out.kind = "empty" -> [raises |-> "", value |-> ""]
      [] OTHER -> [raises |-> "", value |-> out.t]

\* the except clauses of _translate_to_zh
Caught(exc) == exc \in {"RequestException", "ValueError"}

NoTCall ==
    [text |-> "", primary |-> [kind |-> "", t |-> ""],
     secondary |-> [kind |-> "", t |-> ""], contacted |-> <<>>,
     status |-> "none", result |-> "", hit |-> FALSE]

\* a guard that lets only the empty text through
PassThroughEmptyOnly(text) == text = ""

\* the guard of line 371: not text or not TRANSLATE_ENABLED
PassThrough(text) == text = "" \/ ~TRANSLATE_ENABLED

\* _translate_to_zh, given what each provider would answer
TranslateToZh(text, primary, secondary) ==
    LET base == [NoTCall EXCEPT !.text = text, !.primary = primary,
                                !.secondary = secondary, !.status = "returned"]
    IN
    IF PassThrough(text)
    THEN [call |-> [base EXCEPT !.result = text], cache |-> TRANSLATE_CACHE]
    ELSE IF text \in DOMAIN TRANSLATE_CACHE
    THEN [call |-> [base EXCEPT !.result = TRANSLATE_CACHE[text], !.hit = TRUE],
          cache |-> TRANSLATE_CACHE]
    ELSE
    LET first == TranslateWithLibretranslate(primary)
        second == TranslateWithGoogle(secondary)
        fallback == first.raises = "" /\ first.value = ""
        contacted == IF fallback THEN <<"primary", "secondary">> ELSE <<"primary">>
        raises == IF fallback THEN second.raises ELSE first.raises
        translated == IF fallback THEN second.value ELSE first.value
        tried == [base EXCEPT !.contacted = contacted]
    IN
    IF raises # ""
    THEN IF Caught(raises)
         THEN [call |-> [tried EXCEPT !.result = text], cache |-> TRANSLATE_CACHE]
         ELSE [call |-> [tried EXCEPT !.status = "raised"], cache |-> TRANSLATE_CACHE]
    ELSE IF translated # ""
    THEN [call |-> [tried EXCEPT !.result = translated],
          cache |-> [x \in DOMAIN TRANSLATE_CACHE \cup {text} |->
                        IF x = text THEN translated ELSE TRANSLATE_CACHE[x]]]
    ELSE [call |-> [tried EXCEPT !.result = text], cache |-> TRANSLATE_CACHE]

\* the translations the providers contacted by a call handed back
Handed(call) ==
    {<<call.text, call.primary.t>> :
        x \in {y \in {1} : Len(call.contacted) >= 1 /\ call.primary.kind = "ok"}}
    \cup {<<call.text, call.secondary.t>> :
        x \in {y \in {1} : Len(call.contacted) >= 2 /\ call.secondary.kind = "ok"}}

Translate ==
    /\ tcalls < MaxCalls
    /\ \E text \in Texts, primary \in ProviderOutcomes, secondary \in ProviderOutcomes :
          LET r == TranslateToZh(text, primary, secondary) IN
          /\ TRANSLATE_CACHE' = r.cache
          /\ tlast' = r.call
          /\ provided' = provided \cup Handed(r.call)
    /\ tprev' = tlast
    /\ tcalls' = tcalls + 1
    /\ UNCHANGED TRANSLATE_ENABLED
    /\ UNCHANGED <<resolveVars, handlerVars, threadVars>>

\* ------------------------------------------------------------ error handlers
\* the errors Flask hands to an error handler, as str(e)
Errors ==
    {"404 Not Found", "405 Method Not Allowed", "500 Internal Server Error",
     "example exception", ""}

\* _usage()
Usage ==
    "Allowed request fields for apod method are 'concept_tags', 'date', 'hd', "
        \o "'count', 'start_date', 'end_date', 'thumbs"

\* _abort(code, msg, usage): the response built, and the call added to the
\* _abort calls made so far
Abort(calls, code, msg, usage) ==
    [response |-> [service_version |-> SERVICE_VERSION,
                   msg |-> IF usage THEN msg \o " " \o Usage \o "'" ELSE msg,
                   code |-> code, status_code |-> code],
     calls |-> Append(calls, [code |-> code, msg |-> msg, usage |-> usage])]

\* a handler that builds its 404 response itself
PageNotFoundInline(e) ==
    [handler |-> "page_not_found", e |-> e, aborts |-> <<>>,
     response |-> [service_version |-> SERVICE_VERSION,
                   msg |-> "Sorry, Nothing at this URL.",
                   code |-> 404, status_code |-> 404]]

\* page_not_found(e): the _abort calls it makes and what it returns
PageNotFoundCall(e) ==
    LET r == Abort(<<>>, 404, "Sorry, Nothing at this URL.", TRUE) IN
    [handler |-> "page_not_found", e |-> e, aborts |-> r.calls,
     response |-> r.response]

\* app_error(e)
AppErrorCall(e) ==
    LET r == Abort(<<>>, 500, "Sorry, unexpected error: " \o e, FALSE) IN
    [handler |-> "app_error", e |-> e, aborts |-> r.calls,
     response |-> r.response]

PageNotFound ==
    /\ Len(hlog) < MaxCalls
    /\ \E e \in Errors : hlog' = Append(hlog, PageNotFoundCall(e))
    /\ UNCHANGED <<resolveVars, translateVars, threadVars>>

AppError ==
    /\ Len(hlog) < MaxCalls
    /\ \E e \in Errors : hlog' = Append(hlog, AppErrorCall(e))
    /\ UNCHANGED <<resolveVars, translateVars, threadVars>>

\* ------------------------------------------------------------ concurrent resolveOne
Procs == 1 .. NProcs

NoRequest == [date |-> 0, cf |-> NoFlag, th |-> NoFlag]
\* locals of a request in _get_json_for_date: data, and how the call ended
NoFrame ==
    [data |-> NoRec, hit |-> FALSE, upstream |-> "", status |-> "none",
     result |-> NoRec]

\* the key looked up by the requests in flight (explicit date)
RequestKey == Key(request.date, request.cf, request.th)

\* lines 205-207: the membership test and the read of RESULTS_DICT
CacheCheck(p) ==
    /\ pc[p] = "check"
    /\ IF RequestKey \in DOMAIN RESULTS_DICT
       THEN /\ frame' = [frame EXCEPT ![p].data = RESULTS_DICT[RequestKey],
                                      ![p].hit = TRUE]
            /\ pc' = [pc EXCEPT ![p] = "write"]
       ELSE /\ pc' = [pc EXCEPT ![p] = "fetch"]
            /\ UNCHANGED frame
    /\ UNCHANGED <<resolveVars, translateVars, handlerVars, request, writes>>

\* lines 208-218: the call of _apod_handler, and the return when it has
\* no record
FetchStep(p) ==
    /\ pc[p] = "fetch"
    /\ \E payload \in Payloads :
        \E out \in ParseOutcomes(request.date, FALSE, request.cf, request.th, payload) :
          LET data == ApodHandler(out) IN
          CASE data.type = "none" ->
                 /\ frame' = [frame EXCEPT ![p].upstream = out.kind,
                                           ![p].status = "NotFound"]
                 /\ pc' = [pc EXCEPT ![p] = "done"]
            [] data.type = "response" ->
                 /\ frame' = [frame EXCEPT ![p].upstream = out.kind,
                                           ![p].status = "Fault"]
                 /\ pc' = [pc EXCEPT ![p] = "done"]
            [] OTHER ->
                 /\ frame' = [frame EXCEPT ![p].upstream = out.kind,
                                           ![p].data = data.rec]
                 /\ pc' = [pc EXCEPT ![p] = "write"]
    /\ UNCHANGED <<resolveVars, translateVars, handlerVars, request, writes>>

\* lines 220-237: service_version, the key of the record's date, the
\* assignment to RESULTS_DICT and the return
WriteStep(p) ==
    /\ pc[p] = "write"
    /\ LET rec == WithVersion(frame[p].data)
           wkey == DataKey(rec, RequestKey, request.cf, request.th)
       IN
       /\ RESULTS_DICT' = Put(RESULTS_DICT, wkey, rec)
       /\ writes' = Append(writes, [proc |-> p, key |-> wkey, rec |-> rec])
       /\ frame' = [frame EXCEPT ![p].status = "ok", ![p].result = rec]
    /\ pc' = [pc EXCEPT ![p] = "done"]
    /\ UNCHANGED <<today, utcToday, writer, last, prev, ncalls>>
    /\ UNCHANGED <<translateVars, handlerVars, request>>

\* ------------------------------------------------------------ specification
InitHandlers == hlog = <<>>

\* no request in flight
InitThreads ==
    /\ request = NoRequest
    /\ pc = [p \in Procs |-> "done"]
    /\ frame = [p \in Procs |-> NoFrame]
    /\ writes = <<>>

InitTranslate ==
    /\ TRANSLATE_CACHE = <<>>
    /\ provided = {}
    /\ tlast = NoTCall
    /\ tprev = NoTCall
    /\ tcalls = 0

InitResolve ==
    /\ today = BeginOrdinal + Horizon
    /\ RESULTS_DICT = <<>>
    /\ writer = <<>>
    /\ last = NoCall
    /\ prev = NoCall
    /\ ncalls = 0

\* the resolver, under any offset between the local and the UTC calendar day
Init ==
    /\ InitResolve
    /\ utcToday \in {today - 1, today, today + 1}
    /\ InitTranslate
    /\ TRANSLATE_ENABLED = TRUE
    /\ InitHandlers
    /\ InitThreads

Next == ResolveOne \/ ResolveRandom \/ ResolveRange

Spec == Init /\ [][Next]_vars

\* single-date resolution alone
NextOne == ResolveOne

SpecOne == Init /\ [][NextOne]_vars

\* range resolution alone
NextRange == ResolveRange

SpecRange == Init /\ [][NextRange]_vars

\* the two batch resolutions alone
NextBatch == ResolveRandom \/ ResolveRange

SpecBatch == Init /\ [][NextBatch]_vars

\* the translation gateway, with TRANSLATE_ENABLED as the environment sets it
InitT ==
    /\ InitResolve
    /\ utcToday = today
    /\ InitTranslate
    /\ TRANSLATE_ENABLED \in BOOLEAN
    /\ InitHandlers
    /\ InitThreads

NextT == Translate

SpecTranslate == InitT /\ [][NextT]_vars

\* the error handlers alone
InitH ==
    /\ InitResolve
    /\ utcToday = today
    /\ InitTranslate
    /\ TRANSLATE_ENABLED = TRUE
    /\ InitHandlers
    /\ InitThreads

NextH == PageNotFound \/ AppError

SpecHandlers == InitH /\ [][NextH]_vars

\* NProcs requests for the same explicit date and flags, served at the same
\* time and interleaved step by step
InitC ==
    /\ InitResolve
    /\ utcToday = today
    /\ InitTranslate
    /\ TRANSLATE_ENABLED = TRUE
    /\ InitHandlers
    /\ \E d \in {o \in InputDates : ValidDate(o)}, flags \in FlagPairs :
          request = [date |-> d, cf |-> flags.cf, th |-> flags.th]
    /\ pc = [p \in Procs |-> "check"]
    /\ frame = [p \in Procs |-> NoFrame]
    /\ writes = <<>>

NextC == \E p \in Procs : CacheCheck(p) \/ FetchStep(p) \/ WriteStep(p)

SpecThreads == InitC /\ [][NextC]_vars

\* ------------------------------------------------------------ properties
\* the call that came before `last` and `last` are resolveOne calls for the
\* same explicit date and flags, and the first returned a record
SameExplicitTwice ==
    /\ prev.op = "one" /\ last.op = "one"
    /\ prev.date # Absent /\ last.date = prev.date
    /\ last.cf = prev.cf /\ last.th = prev.th
    /\ prev.status = "ok"

\* C1: when resolveOne(d, flags) for an explicit date d returns a record, an
\* immediately following resolveOne(d, flags) returns the identical record
\* and is served from RESULTS_DICT, with no upstream fetch, whatever the
\* upstream would have answered the second time.
C1_Idempotent ==
    SameExplicitTwice =>
        /\ last.status = "ok"
        /\ last.result = prev.result
        /\ last.reads = 1
        /\ last.fetched = <<>>

\* the first call fetched its record upstream, the second was served
C1_Witness ==
    /\ SameExplicitTwice
    /\ Len(prev.fetched) = 1
    /\ last.status = "ok" /\ last.fetched = <<>>

\* one of c, d is resolveOne with the date absent, the other resolveOne with
\* the explicit date of the local calendar day, same flags, both got a record
DefaultedAndExplicit(c, d) ==
    /\ c.op = "one" /\ d.op = "one"
    /\ c.date = Absent /\ d.date = today
    /\ c.cf = d.cf /\ c.th = d.th
    /\ c.status = "ok" /\ d.status = "ok"

SameDayPair ==
    DefaultedAndExplicit(prev, last) \/ DefaultedAndExplicit(last, prev)

\* C5 as stated: on a calendar day X (local and UTC calendars agreeing), a
\* defaulted resolveOne and a resolveOne for the explicit date X, same flags,
\* that each obtain a record write it under the same key, so that one entry
\* is shared by both.
C5_Original ==
    (utcToday = today /\ SameDayPair) =>
        /\ last.wkeys = prev.wkeys
        /\ \A k \in last.wkeys : RESULTS_DICT[k] = last.result[1]

\* C5 amended: each of the two calls writes its record under the key of the
\* record's own date; when both records are dated X the two calls write the
\* same key, the key of X and the flags, and the entry is the record of the
\* later call.
C5_Convergence ==
    (SameDayPair /\ prev.result[1].date = today /\ last.result[1].date = today) =>
        /\ last.wkeys = prev.wkeys
        /\ last.wkeys = {Key(today, last.cf, last.th)}
        /\ RESULTS_DICT[Key(today, last.cf, last.th)] = last.result[1]

\* the defaulted call fetched a record dated X, the explicit call for X
\* that followed was served that entry
C5_Witness ==
    /\ DefaultedAndExplicit(prev, last)
    /\ Len(prev.fetched) = 1 /\ prev.result[1].date = today
    /\ last.fetched = <<>>
    /\ last.wkeys = prev.wkeys

\* the keys of the records a call returned, under the call's flags
ResultKeys(c) == {Key(c.result[i].date, c.cf, c.th) : i \in 1 .. Len(c.result)}

\* C6 as stated: after resolveRandom returns, every record of its result is
\* in RESULTS_DICT under the key of its date and the call's flags.
C6_Original ==
    (last.op = "random" /\ last.status = "ok") =>
        \A i \in 1 .. Len(last.result) :
            /\ Key(last.result[i].date, last.cf, last.th) \in DOMAIN RESULTS_DICT
            /\ RESULTS_DICT[Key(last.result[i].date, last.cf, last.th)] = last.result[i]

\* C6 amended: resolveRandom neither looks up nor assigns RESULTS_DICT: the
\* dict after the call is the dict before it.
C6_RandomLeavesDict ==
    [][(ncalls' # ncalls /\ last'.op = "random") =>
          (last'.reads = 0 /\ RESULTS_DICT' = RESULTS_DICT)]_vars

\* a random call returned a record that RESULTS_DICT does not hold
C6_Witness ==
    /\ last.op = "random" /\ last.status = "ok"
    /\ \E k \in ResultKeys(last) : k \notin DOMAIN RESULTS_DICT

\* C7: resolveRange returns records in strictly ascending date order, each
\* dated the day it was asked for, all within [start, end]; a record dated
\* otherwise is dropped.
C7_RangeOrdered ==
    (last.op = "range" /\ last.status = "ok") =>
        /\ Len(last.asked) = Len(last.result)
        /\ \A i \in 1 .. Len(last.result) :
              /\ last.result[i].date = last.asked[i]
              /\ last.result[i].date >= last.start
              /\ last.result[i].date <= (IF last.end = Absent THEN today ELSE last.end)
        /\ \A i, j \in 1 .. Len(last.result) :
              i < j => last.result[i].date < last.result[j].date

\* a range of two days: the record of the first day was returned, the
\* record fetched for the second carried another date and was dropped
C7_Witness ==
    /\ last.op = "range" /\ last.status = "ok"
    /\ Len(last.fetched) >= 2
    /\ Len(last.result) >= 1
    /\ \E i \in 1 .. Len(last.handled) : last.handled[i] = "mismatch"

\* C8 as stated: resolveRandom(count, flags) with 0 < count <= 100 returns at
\* most count records, with pairwise distinct dates, all in [begin, today].
C8_Original ==
    (last.op = "random" /\ last.count > 0 /\ last.count <= MaxCount) =>
        /\ last.status = "ok"
        /\ Len(last.result) <= last.count
        /\ \A i, j \in 1 .. Len(last.result) :
              i # j => last.result[i].date # last.result[j].date
        /\ \A i \in 1 .. Len(last.result) :
              last.result[i].date >= BeginOrdinal /\ last.result[i].date <= today

OutOfRange(d) == d < BeginOrdinal \/ d > today

\* the validation error an invalid query must end with ("" for a valid one)
Rejection(c) ==
    CASE c.op = "one" /\ c.date # Absent /\ OutOfRange(c.date) -> "OutOfRangeDate"
      [] c.op = "random" /\ (c.count <= 0 \/ c.count > MaxCount) -> "InvalidCount"
      [] c.op = "range" /\ OutOfRange(c.start) -> "OutOfRangeDate"
      [] c.op = "range" /\ c.end # Absent /\ OutOfRange(c.end) -> "OutOfRangeDate"
      [] c.op = "range" /\ c.end # Absent /\ c.start > c.end -> "InvalidRange"
      [] OTHER -> ""

\* C9: an invalid query (a date outside [begin, today], a count outside
\* 1..100, a range whose start is after its end) ends with its validation
\* error, fetches nothing, reads RESULTS_DICT not once and leaves it as it was.
C9_InvalidRejected ==
    [][(ncalls' # ncalls /\ Rejection(last') # "") =>
          /\ last'.status = Rejection(last')
          /\ last'.fetched = <<>>
          /\ last'.reads = 0
          /\ last'.result = <<>>
          /\ RESULTS_DICT' = RESULTS_DICT]_vars

\* a range with start after end was refused while RESULTS_DICT held entries
C9_Witness ==
    /\ last.op = "range" /\ last.status = "InvalidRange"
    /\ last.fetched = <<>>
    /\ RESULTS_DICT # <<>>

\* C10: every entry of RESULTS_DICT sits under the key of the stored record's
\* own date and the flags of the call that wrote it.
C10_KeyedByRecordDate ==
    \A k \in DOMAIN RESULTS_DICT :
        /\ k \in DOMAIN writer
        /\ k = Key(RESULTS_DICT[k].date, writer[k][1], writer[k][2])

\* a defaulted call looked up the key of one day, got a record of another
\* day and stored it under the record's day
C10_Witness ==
    /\ last.op = "one" /\ last.date = Absent /\ last.status = "ok"
    /\ last.result[1].date # utcToday
    /\ Key(last.result[1].date, last.cf, last.th) \in DOMAIN RESULTS_DICT
    /\ Key(utcToday, last.cf, last.th) \notin DOMAIN RESULTS_DICT

\* C11: a resolveOne call that finds no entry in RESULTS_DICT ends with the
\* 404 NotFound outcome when parse_apod has no data and with the 500 fault
\* outcome when parse_apod raises; the two outcomes differ; either way the
\* call returns no record and RESULTS_DICT is left as it was.
C11_MissOutcomes ==
    [][(ncalls' # ncalls /\ last'.op = "one" /\ Len(last'.upstream) = 1
          /\ last'.upstream[1].kind \in {"absent", "raise"}) =>
          /\ last'.upstream[1].kind = "absent" =>
                (last'.status = "NotFound" /\ HttpCode(last'.status) = 404)
          /\ last'.upstream[1].kind = "raise" =>
                (last'.status = "Fault" /\ HttpCode(last'.status) = 500)
          /\ last'.result = <<>>
          /\ last'.wkeys = {}
          /\ RESULTS_DICT' = RESULTS_DICT]_vars

\* two calls for the same explicit date and flags: parse_apod raised for the
\* first and had no data for the second, and the key is still not cached
C11_Witness ==
    /\ prev.op = "one" /\ last.op = "one"
    /\ prev.date # Absent /\ last.date = prev.date
    /\ last.cf = prev.cf /\ last.th = prev.th
    /\ prev.status = "Fault" /\ last.status = "NotFound"
    /\ Len(last.upstream) = 1 /\ last.upstream[1].kind = "absent"
    /\ Key(last.date, last.cf, last.th) \notin DOMAIN RESULTS_DICT

\* C12: with translation disabled, or for the empty text, translate returns
\* the text as it came, contacts no provider, is not served from
\* TRANSLATE_CACHE and leaves TRANSLATE_CACHE as it was.
C12_PassThrough ==
    [][(tcalls' # tcalls /\ (tlast'.text = "" \/ ~TRANSLATE_ENABLED)) =>
          /\ tlast'.status = "returned"
          /\ tlast'.result = tlast'.text
          /\ tlast'.contacted = <<>>
          /\ ~tlast'.hit
          /\ TRANSLATE_CACHE' = TRANSLATE_CACHE
          /\ provided' = provided]_vars

\* translation is disabled: two calls for the same non-empty text, for which
\* the primary provider had a translation, both returned the text itself
C12_Witness ==
    /\ ~TRANSLATE_ENABLED
    /\ tprev.status = "returned" /\ tlast.status = "returned"
    /\ tlast.text = "hello" /\ tprev.text = "hello"
    /\ tprev.primary.kind = "ok" /\ tlast.primary.kind = "ok"
    /\ tlast.result = "hello" /\ tlast.contacted = <<>>
    /\ TRANSLATE_CACHE = <<>>

\* C13 as stated: two resolveOne calls with explicit dates look up the same
\* key exactly when they agree on the date and on both flags, and a call
\* served from RESULTS_DICT gets a record that was fetched under its own
\* flags.
C13_Original ==
    /\ (prev.op = "one" /\ last.op = "one"
          /\ prev.date # Absent /\ last.date # Absent) =>
          ((Key(prev.date, prev.cf, prev.th) = Key(last.date, last.cf, last.th))
              <=> (prev.date = last.date /\ prev.cf = last.cf /\ prev.th = last.th))
    /\ (last.op = "one" /\ last.status = "ok" /\ last.fetched = <<>>) =>
          (last.result[1].cf = last.cf /\ last.result[1].th = last.th)

\* C14: a call for an explicit date d passes the date validation exactly
\* when 1995-06-16 <= d <= today, both end days included; every earlier and
\* every later day is refused as OutOfRangeDate.
C14_ValidateInclusive ==
    (last.op = "one" /\ last.date # Absent) =>
        ((last.status # "OutOfRangeDate")
            <=> (BeginOrdinal <= last.date /\ last.date <= today))

\* the first APOD day and today were both let through
C14_Witness ==
    /\ prev.op = "one" /\ last.op = "one"
    /\ prev.date = BeginOrdinal /\ last.date = today
    /\ prev.status # "OutOfRangeDate" /\ last.status # "OutOfRangeDate"
    /\ prev.reads = 1 /\ last.reads = 1

\* C15: for any error it is handed, page_not_found calls _abort exactly
\* once, with code 404, and returns the response that call built.
C15_NotFoundThroughAbort ==
    \A i \in 1 .. Len(hlog) :
        hlog[i].handler = "page_not_found" =>
            /\ Len(hlog[i].aborts) = 1
            /\ hlog[i].aborts[1].code = 404
            /\ hlog[i].response =
                  Abort(<<>>, hlog[i].aborts[1].code, hlog[i].aborts[1].msg,
                        hlog[i].aborts[1].usage).response
            /\ hlog[i].response.status_code = 404

\* page_not_found has answered two different errors
C15_Witness ==
    /\ Len(hlog) = 2
    /\ hlog[1].handler = "page_not_found" /\ hlog[2].handler = "page_not_found"
    /\ hlog[1].e = "example exception" /\ hlog[2].e # hlog[1].e
    /\ Len(hlog[2].aborts) = 1

\* every request in flight has returned
AllDone == request # NoRequest /\ \A p \in Procs : pc[p] = "done"

\* C18 as stated: however the steps of concurrent resolveOne calls for the
\* same date and flags interleave, every call returns a record for that date,
\* and when all have returned RESULTS_DICT holds one entry, under their key,
\* equal to the record assigned last.
C18_Original ==
    AllDone =>
        /\ \A p \in Procs :
              frame[p].status = "ok" /\ frame[p].result.date = request.date
        /\ DOMAIN RESULTS_DICT = {RequestKey}
        /\ writes # <<>>
        /\ RESULTS_DICT[RequestKey] = writes[Len(writes)].rec

\* C18 amended: however the steps interleave, a call whose lookup hits or
\* whose fetch yields a record returns a record for that date and assigns it
\* under the key; a call whose fetch has no data or raises ends NotFound or
\* with the fault and assigns nothing.  At every moment RESULTS_DICT is
\* empty when nothing was assigned yet, and otherwise holds one entry, under
\* the key, equal to the record assigned last.
C18_LastWriterWins ==
    /\ IF writes = <<>>
       THEN RESULTS_DICT = <<>>
       ELSE /\ DOMAIN RESULTS_DICT = {RequestKey}
            /\ RESULTS_DICT[RequestKey] = writes[Len(writes)].rec
    /\ \A i \in 1 .. Len(writes) :
          /\ writes[i].key = RequestKey
          /\ writes[i].rec.date = request.date
          /\ frame[writes[i].proc].result = writes[i].rec
    /\ AllDone =>
          \A p \in Procs :
              /\ (frame[p].hit \/ frame[p].upstream = "record") =>
                    /\ frame[p].status = "ok"
                    /\ frame[p].result.date = request.date
                    /\ \E i \in 1 .. Len(writes) : writes[i].proc = p
              /\ frame[p].upstream = "absent" =>
                    (frame[p].status = "NotFound" /\ \A i \in 1 .. Len(writes) : writes[i].proc # p)
              /\ frame[p].upstream = "raise" =>
                    (frame[p].status = "Fault" /\ \A i \in 1 .. Len(writes) : writes[i].proc # p)

\* two calls both missed, fetched different records and assigned them one
\* after the other: the entry is the second record
C18_Witness ==
    /\ AllDone
    /\ Len(writes) = 2
    /\ \A p \in Procs : p <= 2 => ~frame[p].hit /\ frame[p].status = "ok"
    /\ writes[1].rec # writes[2].rec
    /\ RESULTS_DICT[RequestKey] = writes[2].rec

\* the positions of a call's fetches that parse_apod answered with a record
Records(c) == {i \in 1 .. Len(c.upstream) : c.upstream[i].kind = "record"}

\* the days of [begin, today]
AllDays == today - BeginOrdinal + 1

\* C16: a range call fetches every day of [start, end] whatever parse_apod
\* answers for any of them, and returns a record for each day whose fetch
\* gave a record of that day; a random call returns the record of every
\* fetch that gave one, and after a fetch that gave none goes on to the next
\* ordinal, stopping only with count records or with no ordinal left.
C16_BatchIsolation ==
    /\ (last.op = "range" /\ last.status = "ok") =>
          /\ Len(last.upstream) = (IF last.end = Absent THEN today ELSE last.end) - last.start + 1
          /\ \A i \in Records(last) :
                last.upstream[i].date = last.fetched[i].dt =>
                    \E j \in 1 .. Len(last.result) :
                        last.result[j].date = last.fetched[i].dt
    /\ (last.op = "random" /\ last.status = "ok") =>
          /\ Len(last.result) = Cardinality(Records(last))
          /\ \A i \in 1 .. Len(last.upstream) :
                last.upstream[i].kind # "record" =>
                    (i < Len(last.upstream) \/ Len(last.upstream) = AllDays)
          /\ Len(last.result) < last.count => Len(last.upstream) = AllDays

\* a range of two days: parse_apod raised for the first day and the record
\* of the second was returned
C16_Witness ==
    /\ last.op = "range" /\ last.status = "ok"
    /\ Len(last.upstream) = 2
    /\ last.upstream[1].kind = "raise"
    /\ last.upstream[2].kind = "record"
    /\ Len(last.result) = 1 /\ last.result[1].date = last.fetched[2].dt

\* C19: a range or random call runs to its end.  A range call makes one
\* fetch for each ordinal of [start, end], in ascending order, whatever each
\* fetch answers; a random call fetches no ordinal of [begin, today] twice,
\* returns at most count records and makes no fetch after the one that gave
\* it the count-th record.
C19_BatchTerminates ==
    /\ (last.op = "range" /\ Rejection(last) = "") =>
          /\ last.status = "ok"
          /\ Len(last.fetched) = (IF last.end = Absent THEN today ELSE last.end) - last.start + 1
          /\ Len(last.handled) = Len(last.fetched)
          /\ \A i \in 1 .. Len(last.fetched) : last.fetched[i].dt = last.start + i - 1
    /\ (last.op = "random" /\ Rejection(last) = "") =>
          /\ last.status = "ok"
          /\ Len(last.handled) = Len(last.fetched)
          /\ \A i \in 1 .. Len(last.fetched) :
                last.fetched[i].dt >= BeginOrdinal /\ last.fetched[i].dt <= today
          /\ \A i, j \in 1 .. Len(last.fetched) :
                i # j => last.fetched[i].dt # last.fetched[j].dt
          /\ Len(last.result) <= last.count
          /\ \A i \in 1 .. Len(last.fetched) - 1 :
                Cardinality({j \in Records(last) : j <= i}) < last.count

\* a random call for one record, with two ordinals to draw from, stopped
\* after its first fetch, which gave the record
C19_Witness ==
    /\ last.op = "random" /\ last.status = "ok"
    /\ last.count = 1 /\ AllDays >= 2
    /\ Len(last.fetched) = 1 /\ Len(last.result) = 1

\* a step that is a range call over a valid range
RangeStep == ncalls' # ncalls /\ last'.op = "range" /\ last'.status = "ok"

\* C17 as stated: a range call fetches no day whose key, under the call's
\* flags, RESULTS_DICT held when the call began, and every record it returns
\* is in RESULTS_DICT, under the key of its date and the call's flags, when
\* the call ends.
C17_Original ==
    [][RangeStep =>
          /\ \A i \in 1 .. Len(last'.fetched) :
                Key(last'.fetched[i].dt, last'.cf, last'.th) \notin DOMAIN RESULTS_DICT
          /\ \A j \in 1 .. Len(last'.result) :
                /\ Key(last'.result[j].date, last'.cf, last'.th) \in DOMAIN RESULTS_DICT'
                /\ RESULTS_DICT'[Key(last'.result[j].date, last'.cf, last'.th)]
                      = last'.result[j]]_vars

\* C17 amended: a range call neither looks up nor assigns RESULTS_DICT: it
\* fetches every day of [start, end], a day whose key is cached included,
\* and the dict after the call is the dict before it.
C17_RangeBypassesDict ==
    [][RangeStep =>
          /\ last'.reads = 0
          /\ last'.wkeys = {}
          /\ \A d \in last'.start .. (IF last'.end = Absent THEN today ELSE last'.end) :
                \E i \in 1 .. Len(last'.fetched) : last'.fetched[i].dt = d
          /\ RESULTS_DICT' = RESULTS_DICT]_vars

\* a range call fetched a day that RESULTS_DICT holds under the call's
\* flags, and returned for it a record other than the cached one
C17_Witness ==
    /\ last.op = "range" /\ last.status = "ok"
    /\ \E i \in 1 .. Len(last.fetched) :
          LET k == Key(last.fetched[i].dt, last.cf, last.th) IN
          /\ k \in DOMAIN RESULTS_DICT
          /\ \E j \in 1 .. Len(last.result) :
                /\ last.result[j].date = last.fetched[i].dt
                /\ last.result[j] # RESULTS_DICT[k]

\* a translate call that went past the pass-through and the cache lookup
Attempted(c) == c.status # "none" /\ c.text # "" /\ TRANSLATE_ENABLED /\ ~c.hit

Failed(out) == out.kind \in {"network", "http", "nonjson", "shape", "empty"}

\* C2 as stated: for a non-empty text with translation enabled and no cache
\* entry, when the primary provider fails (request fault, malformed response
\* or empty result) and the secondary has a non-empty translation t,
\* translate returns t and caches it, and a following identical call returns
\* t from the cache, contacting no provider.
C2_Original ==
    /\ (Attempted(tlast) /\ Failed(tlast.primary) /\ tlast.secondary.kind = "ok") =>
          /\ tlast.status = "returned"
          /\ tlast.result = tlast.secondary.t
          /\ tlast.text \in DOMAIN TRANSLATE_CACHE
          /\ TRANSLATE_CACHE[tlast.text] = tlast.secondary.t
    /\ (Attempted(tprev) /\ Failed(tprev.primary) /\ tprev.secondary.kind = "ok"
          /\ tlast.status # "none" /\ tlast.text = tprev.text) =>
          /\ tlast.result = tprev.secondary.t
          /\ tlast.contacted = <<>>

\* a contacted provider handed back a translation
Yielded(c) ==
    \/ Len(c.contacted) >= 1 /\ c.primary.kind = "ok"
    \/ Len(c.contacted) >= 2 /\ c.secondary.kind = "ok"

\* C3 as stated: whatever the two providers do, translate raises nothing and
\* returns a text; when no provider hands back a non-empty translation it
\* returns the original text.
C3_Original ==
    tlast.status # "none" =>
        /\ tlast.status = "returned"
        /\ tlast.result \in Texts \cup Translations
        /\ (~tlast.hit /\ ~Yielded(tlast)) => tlast.result = tlast.text

BothFail(c) == Attempted(c) /\ Failed(c.primary) /\ Failed(c.secondary)

\* C4 as stated: TRANSLATE_CACHE holds for a text only a translation a
\* provider handed back for that text; when both providers fail, translate
\* returns the original text and adds no entry, and a later call for the
\* same text contacts the providers again.
C4_Original ==
    /\ \A x \in DOMAIN TRANSLATE_CACHE : <<x, TRANSLATE_CACHE[x]>> \in provided
    /\ BothFail(tlast) =>
          /\ tlast.status = "returned"
          /\ tlast.result = tlast.text
          /\ tlast.text \notin DOMAIN TRANSLATE_CACHE
    /\ (BothFail(tprev) /\ tlast.status # "none" /\ tlast.text = tprev.text) =>
          Len(tlast.contacted) >= 1

====
